---- MODULE Spec2Model ----
(***************************************************************************)
(* A model of the GCS file adapter of go-yaaf/yaaf-common-gcs:             *)
(* GcsFile (gcsfilestore/gcs_file.go) and GcsFileStore (the store file).   *)
(*                                                                         *)
(* Strings are TLA+ strings; TLC evaluates Len, \o, SubSeq, Head and Tail  *)
(* on them.  A byte payload is a sequence of small integers.               *)
(***************************************************************************)
EXTENDS Integers, Sequences, FiniteSets, TLC

(***************************************************************************)
(* Go string helpers (package strings), computed as the library does.      *)
(***************************************************************************)

\* s[i] of Go (1-based here), as a one-character string
Ch(s, i) == SubSeq(s, i, i)

\* s[i:] of Go for a 1-based first position i
From(s, i) == SubSeq(s, i, Len(s))

\* s[:i] of Go up to, not including, the 1-based position i; all of s when i = 0
Before(s, i) == IF i = 0 THEN s ELSE SubSeq(s, 1, i - 1)

\* what follows the 1-based position i; nothing when i = 0
After(s, i) == IF i = 0 THEN "" ELSE SubSeq(s, i + 1, Len(s))

\* strings.HasPrefix
HasPrefix(s, p) == Len(p) <= Len(s) /\ SubSeq(s, 1, Len(p)) = p

\* strings.Index, 1-based; 0 when sub does not occur
RECURSIVE IndexFrom(_, _, _)
IndexFrom(s, sub, i) ==
    IF i + Len(sub) - 1 > Len(s) THEN 0
    ELSE IF SubSeq(s, i, i + Len(sub) - 1) = sub THEN i
    ELSE IndexFrom(s, sub, i + 1)

Index(s, sub) == IndexFrom(s, sub, 1)

\* strings.LastIndex, 1-based; 0 when sub does not occur
RECURSIVE LastIndexFrom(_, _, _)
LastIndexFrom(s, sub, i) ==
    IF i < 1 THEN 0
    ELSE IF SubSeq(s, i, i + Len(sub) - 1) = sub THEN i
    ELSE LastIndexFrom(s, sub, i - 1)

LastIndex(s, sub) == LastIndexFrom(s, sub, Len(s) - Len(sub) + 1)

Contains(s, sub) == Index(s, sub) > 0

\* strings.ReplaceAll for a non-empty old: non-overlapping, left to right
RECURSIVE ReplaceFrom(_, _, _, _)
ReplaceFrom(s, old, new, i) ==
    IF i = 0 THEN s
    ELSE SubSeq(s, 1, i - 1) \o new
         \o ReplaceFrom(From(s, i + Len(old)), old, new,
                        Index(From(s, i + Len(old)), old))

ReplaceAll(s, old, new) == ReplaceFrom(s, old, new, Index(s, old))

(***************************************************************************)
(* Bytes.  The printable ASCII characters in code order: AsciiLo holds the *)
(* codes 32 .. 95 and AsciiHi the codes 97 .. 126 (the grave accent, code  *)
(* 96, cannot be written in a TLA+ string and is left out).                *)
(***************************************************************************)
AsciiLo == " !\"#$%&'()*+,-./0123456789:;<=>?@ABCDEFGHIJKLMNOPQRSTUVWXYZ[\\]^_"
AsciiHi == "abcdefghijklmnopqrstuvwxyz{|}~"

\* the byte value of each character of Ascii
CodeTable ==
    [c \in {Ch(AsciiLo, i) : i \in 1 .. Len(AsciiLo)} \cup
           {Ch(AsciiHi, i) : i \in 1 .. Len(AsciiHi)} |->
        IF Contains(AsciiLo, c) THEN Index(AsciiLo, c) + 31 ELSE Index(AsciiHi, c) + 96]

\* the byte value of a one-character string (0 for a character outside Ascii)
Code(c) == IF Contains(AsciiLo \o AsciiHi, c) THEN CodeTable[c] ELSE 0

\* the one-character string of a byte value; a byte outside the printable
\* range is written as the text <n>, which no input of the model produces
Chr(n) ==
    IF n >= 32 /\ n <= 95 THEN Ch(AsciiLo, n - 31)
    ELSE IF n >= 97 /\ n <= 126 THEN Ch(AsciiHi, n - 96)
    ELSE "<" \o ToString(n) \o ">"

IsLetter(c) == Contains("abcdefghijklmnopqrstuvwxyzABCDEFGHIJKLMNOPQRSTUVWXYZ", c)
IsDigit(c) == Contains("0123456789", c)

\* lexicographic byte order of Go's string comparison (s < t)
RECURSIVE StrLess(_, _)
StrLess(s, t) ==
    IF Len(t) = 0 THEN FALSE
    ELSE IF Len(s) = 0 THEN TRUE
    ELSE IF Head(s) = Head(t) THEN StrLess(Tail(s), Tail(t))
    ELSE Code(Head(s)) < Code(Head(t))

(***************************************************************************)
(* net/url of the Go standard library, as far as parseUri reads its        *)
(* result: the error, Host and Path of url.Parse(rawURL).  Scheme is kept  *)
(* as written (url.Parse lowers its case; no caller here reads it).        *)
(***************************************************************************)
IsHex(c) == Contains("0123456789abcdefABCDEF", c)

\* unhex: the value of a hex digit
Unhex(c) ==
    IF IsDigit(c) THEN Code(c) - 48
    ELSE IF Contains("abcdef", c) THEN Code(c) - 97 + 10
    ELSE IF Contains("ABCDEF", c) THEN Code(c) - 65 + 10
    ELSE 0

\* shouldEscape(c, encodeHost): the bytes a host may not hold unescaped
ShouldEscapeHost(c) ==
    ~ \/ IsLetter(c)
      \/ IsDigit(c)
      \/ Contains("!$&'()*+,;=:[]<>\"", c)
      \/ Contains("-_.~", c)

\* unescape(s, mode) fails: a % that two hex digits do not follow; in a host
\* also an escape below %80 other than %25, and a byte the host may not hold
RECURSIVE UnescapeErr(_, _)
UnescapeErr(s, host) ==
    IF Len(s) = 0 THEN FALSE
    ELSE IF Head(s) = "%"
    THEN IF Len(s) < 3 THEN TRUE
         ELSE IF ~IsHex(Ch(s, 2)) \/ ~IsHex(Ch(s, 3)) THEN TRUE
         ELSE IF host /\ Unhex(Ch(s, 2)) < 8 /\ SubSeq(s, 1, 3) # "%25" THEN TRUE
         ELSE UnescapeErr(From(s, 4), host)
    ELSE IF host /\ ShouldEscapeHost(Head(s)) THEN TRUE
    ELSE UnescapeErr(Tail(s), host)

\* unescape(s, mode) of a string it accepts: every %XY becomes the byte 16*X+Y
RECURSIVE Unescape(_)
Unescape(s) ==
    IF Len(s) = 0 THEN ""
    ELSE IF Head(s) = "%"
    THEN Chr(16 * Unhex(Ch(s, 2)) + Unhex(Ch(s, 3))) \o Unescape(From(s, 4))
    ELSE Head(s) \o Unescape(Tail(s))

UrlError == [err |-> TRUE, Scheme |-> "", Host |-> "", Path |-> ""]

\* getScheme: [err, scheme, rest]
RECURSIVE GetSchemeFrom(_, _)
GetSchemeFrom(raw, i) ==
    IF i > Len(raw) THEN [err |-> FALSE, scheme |-> "", rest |-> raw]
    ELSE IF IsLetter(Ch(raw, i)) THEN GetSchemeFrom(raw, i + 1)
    ELSE IF Contains("0123456789+-.", Ch(raw, i))
    THEN IF i = 1 THEN [err |-> FALSE, scheme |-> "", rest |-> raw]
         ELSE GetSchemeFrom(raw, i + 1)
    ELSE IF Ch(raw, i) = ":"
    THEN IF i = 1 THEN [err |-> TRUE, scheme |-> "", rest |-> ""]
         ELSE [err |-> FALSE, scheme |-> SubSeq(raw, 1, i - 1), rest |-> From(raw, i + 1)]
    ELSE [err |-> FALSE, scheme |-> "", rest |-> raw]

GetScheme(raw) == GetSchemeFrom(raw, 1)

\* validOptionalPort: empty, or a colon followed by digits only
RECURSIVE AllDigits(_)
AllDigits(s) == IF Len(s) = 0 THEN TRUE ELSE IsDigit(Head(s)) /\ AllDigits(Tail(s))

ValidOptionalPort(port) ==
    IF Len(port) = 0 THEN TRUE ELSE Head(port) = ":" /\ AllDigits(Tail(port))

\* validUserinfo
RECURSIVE ValidUserinfo(_)
ValidUserinfo(s) ==
    IF Len(s) = 0 THEN TRUE
    ELSE /\ \/ IsLetter(Head(s))
            \/ IsDigit(Head(s))
            \/ Contains("-._:~!$&'()*+,;=%@", Head(s))
         /\ ValidUserinfo(Tail(s))

\* parseHost: [err, host].  A host in brackets needs the closing bracket and
\* a valid port after it; any other host a valid port after its last colon.
\* (The zone of a bracketed host is unescaped like the rest of it.)
BadPort(host) ==
    IF HasPrefix(host, "[")
    THEN IF LastIndex(host, "]") = 0 THEN TRUE
         ELSE ~ValidOptionalPort(From(host, LastIndex(host, "]") + 1))
    ELSE IF LastIndex(host, ":") = 0 THEN FALSE
         ELSE ~ValidOptionalPort(From(host, LastIndex(host, ":")))

ParseHost(host) ==
    IF BadPort(host) THEN [err |-> TRUE, host |-> ""]
    ELSE IF UnescapeErr(host, TRUE) THEN [err |-> TRUE, host |-> ""]
    ELSE [err |-> FALSE, host |-> Unescape(host)]

\* parseAuthority: [err, host], at being the position of the last "@"
AuthorityAt(authority, at, h) ==
    IF h.err THEN h
    ELSE IF at = 0 THEN h
    ELSE IF ~ValidUserinfo(SubSeq(authority, 1, at - 1)) THEN [err |-> TRUE, host |-> ""]
    ELSE IF UnescapeErr(SubSeq(authority, 1, at - 1), FALSE) THEN [err |-> TRUE, host |-> ""]
    ELSE h

ParseAuthority(authority) ==
    AuthorityAt(authority, LastIndex(authority, "@"),
                ParseHost(From(authority, LastIndex(authority, "@") + 1)))

\* URL.setPath and the result of parse
SetPath(scheme, a, path) ==
    IF a.err THEN UrlError
    ELSE IF UnescapeErr(path, FALSE) THEN UrlError
    ELSE [err |-> FALSE, Scheme |-> scheme, Host |-> a.host, Path |-> Unescape(path)]

\* the authority is what follows "//" up to the next "/", at position i
SplitAuthority(scheme, after, i) ==
    IF i = 0 THEN SetPath(scheme, ParseAuthority(after), "")
    ELSE SetPath(scheme, ParseAuthority(SubSeq(after, 1, i - 1)), From(after, i))

\* parse, for the rest after the scheme with the query cut off
ParseRest(scheme, rest) ==
    IF ~HasPrefix(rest, "/") /\ scheme # ""
    THEN [err |-> FALSE, Scheme |-> scheme, Host |-> "", Path |-> ""]
    ELSE IF ~HasPrefix(rest, "/") /\ Contains(Before(rest, Index(rest, "/")), ":")
    THEN UrlError
    ELSE IF HasPrefix(rest, "//") /\ (scheme # "" \/ ~HasPrefix(rest, "///"))
    THEN SplitAuthority(scheme, From(rest, 3), Index(From(rest, 3), "/"))
    ELSE SetPath(scheme, [err |-> FALSE, host |-> ""], rest)

AfterScheme(g) ==
    IF g.err THEN UrlError ELSE ParseRest(g.scheme, Before(g.rest, Index(g.rest, "?")))

\* parse(rawURL, viaRequest = false), after the fragment has been cut off
ParseNoFragment(raw) ==
    IF raw = "*" THEN [err |-> FALSE, Scheme |-> "", Host |-> "", Path |-> "*"]
    ELSE AfterScheme(GetScheme(raw))

\* URL.setFragment fails on a fragment that does not unescape
WithFragment(r, frag) ==
    IF r.err THEN r ELSE IF UnescapeErr(frag, FALSE) THEN UrlError ELSE r

\* url.Parse(rawURL): [err, Scheme, Host, Path]
UrlParse(raw) ==
    WithFragment(ParseNoFragment(Before(raw, Index(raw, "#"))), After(raw, Index(raw, "#")))

(***************************************************************************)
(* parseUri (gcs_file.go): url.Parse, then Host and Path[1:].  Slicing an  *)
(* empty Path at 1 is out of range, which panics.                          *)
(***************************************************************************)
HostAndKey(r) ==
    IF r.err THEN [kind |-> "err", bucket |-> "", object |-> ""]
    ELSE IF Len(r.Path) = 0 THEN [kind |-> "panic", bucket |-> "", object |-> ""]
    ELSE [kind |-> "ok", bucket |-> r.Host, object |-> From(r.Path, 2)]

parseUri(u) == HostAndKey(UrlParse(u))

(***************************************************************************)
(* fs.ParseUri of yaaf-common/files, which Rename calls on the pattern:    *)
(* the directory path, the base file name without extension and the        *)
(* extension of the URI's path.  Its source is not part of this            *)
(* repository; it is modelled from the description of the placeholders.    *)
(***************************************************************************)
SplitBase(dir, base, dot) ==
    [err  |-> FALSE,
     path |-> dir,
     file |-> IF dot = 0 THEN base ELSE SubSeq(base, 1, dot - 1),
     ext  |-> IF dot = 0 THEN "" ELSE From(base, dot + 1)]

SplitPath(path, sl) ==
    SplitBase(IF sl = 0 THEN "" ELSE SubSeq(path, 1, sl - 1),
              From(path, sl + 1),
              LastIndex(From(path, sl + 1), "."))

PathParts(r) ==
    IF r.err THEN [err |-> TRUE, path |-> "", file |-> "", ext |-> ""]
    ELSE SplitPath(r.Path, LastIndex(r.Path, "/"))

fsParseUri(u) == PathParts(UrlParse(u))

\* the placeholders of a pattern replaced by the parts c
Substitute(pattern, c) ==
    ReplaceAll(ReplaceAll(ReplaceAll(pattern, "{{path}}", c.path),
                          "{{file}}", c.file),
               "{{ext}}", c.ext)

\* the new URI Rename computes from its pattern (gcs_file.go, 192-199)
newUriOf(pattern) == Substitute(pattern, fsParseUri(pattern))

(***************************************************************************)
(* Bounds and input sets.                                                  *)
(***************************************************************************)
\* the longest byte sequence an incremental writer buffers in the model
MaxBuf == 2
\* how often Close may be called on one handle in the model
MaxCloses == 2

Handles == {"h1", "h2"}

\* the URIs file handles are constructed with
FileUris == {"gs://b/dir/file.txt", "gs://b/dir/new.txt", "gs://b/dir/a%2541", "gs://b"}

\* the URIs the file store is constructed with
StoreUris == {"gs://b/dir", "gs://b"}

\* the payloads of WriteAll and Write
Payloads == {<< >>, <<7>>}

\* the buffer lengths of Read
ReadSizes == {1, 2}

\* the patterns of Rename
Patterns == {"{{path}}/renamed.{{ext}}", "gs://b/dir/new.txt",
             "gs://b/dir/file.txt", "gs://b"}

\* the filters of List and Apply
Filters == {"", "\\.txt$", "("}

\* the buckets that exist in the backend
Buckets == {"b"}

\* the objects the backend holds at the start: (bucket, name) -> content
InitialObjects ==
    (<<"b", "dir/">> :> << >>) @@ (<<"b", "dir/file.txt">> :> <<1, 2>>) @@
    (<<"b", "dir/a%41">> :> <<3>>) @@ (<<"b", "dirx/y.txt">> :> <<4>>)

(***************************************************************************)
(* The URIs of the model, with parseUri and Rename's computation           *)
(* tabulated for them (the tables hold the values of the definitions       *)
(* above, computed once).                                                  *)
(***************************************************************************)
\* the arguments of the store's Exists and Delete: full URIs and a path
\* relative to the store
StoreArgs == {"gs://b/dir/file.txt", "gcs://b/dir/a%2541", "file.txt"}

\* fs.CombineUri of yaaf-common/files: the relative path appended to the
\* store's URI.  Its source is not part of this repository.
CombineUri(base, rel) == base \o "/" \o rel

\* the URI of the transient handle the store's Exists and Delete construct
StoreTarget(su, a) ==
    IF HasPrefix(a, "gcs://") \/ HasPrefix(a, "gs://") THEN a ELSE CombineUri(su, a)

ModelUris ==
    FileUris \cup StoreUris \cup Patterns \cup {newUriOf(p) : p \in Patterns}
    \cup {StoreTarget(su, a) : su \in StoreUris, a \in StoreArgs}

ParseTable == [u \in ModelUris |-> parseUri(u)]

parsed(u) == ParseTable[u]

RenameTable == [p \in Patterns |-> [c |-> fsParseUri(p), new |-> newUriOf(p)]]

(***************************************************************************)
(* State.                                                                  *)
(***************************************************************************)
VARIABLES
    objects,      \* the backend: (bucket, name) -> content of each object
    uri,          \* GcsFile.uri of each handle
    gsClient,     \* GcsFile.gsClient of each handle: NoClient or a client
    reader,       \* GcsFile.reader of each handle: NoCursor or a read cursor
    writer,       \* GcsFile.writer of each handle: NoCursor or a write cursor
    storeUri,     \* GcsFileStore.uri
    storeClient,  \* GcsFileStore.gsClient
    last,         \* the call that returned last: its inputs and results (a
                  \* Rename between its two requests has the result "pending")
    written,      \* per object, the payload of the last successful WriteAll
                  \* when nothing has changed the object since
    race,         \* the calls of Read and Write that run concurrently on one
                  \* handle: where each is, and the cursors they opened
    renaming      \* per handle, the call of Rename that has copied the object
                  \* and not yet deleted the original

vars == <<objects, uri, gsClient, reader, writer, storeUri, storeClient, last, written,
          race, renaming>>

\* the goroutines that call Read or Write on one handle at the same time
Procs == {"p1", "p2"}

\* a nil client pointer
NoClient == [nil |-> TRUE, closes |-> 0]

\* a client storage.NewClient returned, and how often Close was called on it
Client(n) == [nil |-> FALSE, closes |-> n]

\* a nil cursor pointer
NoCursor == [nil |-> TRUE]

\* no concurrent call has begun.  pc: where the call is ("idle", "check",
\* "open", "store", "use", "done", "failed" or "panic"); kind: "Read" or
\* "Write"; sawNil: the call found the cursor field nil; got: what the
\* call's request for a reader returned, until it is stored; opened and
\* released: the cursors the calls opened and closed, per kind
RaceIdle ==
    [pc |-> [p \in Procs |-> "idle"], kind |-> [p \in Procs |-> "Read"],
     sawNil |-> [p \in Procs |-> FALSE],
     got |-> [p \in Procs |-> NoCursor],
     opened |-> [k \in {"Read", "Write"} |-> 0],
     released |-> [k \in {"Read", "Write"} |-> 0]]

\* no Rename is between its copy and its delete
NoRename == [on |-> FALSE, arg |-> "", pre |-> << >>]

\* a call record; every action fills in the fields it has
NoCall ==
    [op |-> "none", h |-> "", arg |-> "", bytes |-> << >>, fault |-> "none",
     out |-> "none", data |-> << >>, str |-> "", flag |-> FALSE, n |-> 0,
     seq |-> << >>, created |-> 0, released |-> 0, sinkClosed |-> FALSE,
     target |-> "", pre |-> << >>, preUri |-> ""]

(***************************************************************************)
(* The storage backend behind the client library, as the handlers use it.  *)
(***************************************************************************)
\* ObjectHandle.validate: a request names a bucket and an object
Valid(b, o) == Len(b) > 0 /\ Len(o) > 0

Has(objs, b, o) == <<b, o>> \in DOMAIN objs

\* a request on (b, o) that needs the object finds it
Found(objs, b, o) == Valid(b, o) /\ Has(objs, b, o)

\* a request that creates (b, o) is accepted
Creatable(b, o) == Valid(b, o) /\ b \in Buckets

Put(objs, b, o, data) ==
    [k \in DOMAIN objs \cup {<<b, o>>} |-> IF k = <<b, o>> THEN data ELSE objs[k]]

Remove(objs, b, o) == [k \in DOMAIN objs \ {<<b, o>>} |-> objs[k]]

(***************************************************************************)
(* GcsFile.ensureClient: [err, cli].  storage.NewClient fails under the    *)
(* fault "client".                                                         *)
(***************************************************************************)
ensureClient(c, f) ==
    IF ~c.nil THEN [err |-> FALSE, cli |-> c]
    ELSE IF f = "client" THEN [err |-> TRUE, cli |-> NoClient]
    ELSE [err |-> FALSE, cli |-> Client(0)]

\* the fault "client" is an input only where storage.NewClient is called
ClientFault(h, f) == f = "client" => gsClient[h].nil

\* the payloads of WriteAll remembered after a step to the backend objs
Track(objs) ==
    [k \in {k \in DOMAIN written \cap DOMAIN objs : objs[k] = objects[k]} |-> written[k]]

(***************************************************************************)
(* GcsFile.ReadAll: [out, data], given the results p of parseUri(t.uri)    *)
(* and e of ensureClient                                                   *)
(***************************************************************************)
ReadAllCall(objs, p, e, f) ==
    IF e.err THEN [out |-> "error", data |-> << >>]
    ELSE IF p.kind = "err" THEN [out |-> "error", data |-> << >>]
    ELSE IF p.kind = "panic" THEN [out |-> "panic", data |-> << >>]
    ELSE IF f = "backend" THEN [out |-> "error", data |-> << >>]
    ELSE IF ~Found(objs, p.bucket, p.object) THEN [out |-> "error", data |-> << >>]
    ELSE [out |-> "ok", data |-> objs[<<p.bucket, p.object>>]]

ReadAllDone(h, f, e, r) ==
    /\ gsClient' = [gsClient EXCEPT ![h] = e.cli]
    /\ last' = [NoCall EXCEPT !.op = "ReadAll", !.h = h, !.fault = f,
                              !.out = r.out, !.data = r.data]
    /\ written' = Track(objects)
    /\ UNCHANGED <<renaming, race, objects, uri, reader, writer, storeUri, storeClient>>

ReadAll(h) ==
    \E f \in {"none", "client", "backend"} :
        /\ ClientFault(h, f)
        /\ ReadAllDone(h, f, ensureClient(gsClient[h], f),
                       ReadAllCall(objects, parsed(uri[h]),
                                   ensureClient(gsClient[h], f), f))

(***************************************************************************)
(* GcsFile.WriteAll: [out, n, objs].  The object is created when the       *)
(* writer is closed; a failed copy or close commits nothing.  The count    *)
(* returned on success is 0.                                               *)
(***************************************************************************)
\* WriteAll that returns without closing its writer: nothing is committed
WriteAllUnflushed(objs, p, b, e, f) ==
    IF e.err THEN [out |-> "error", n |-> 0, objs |-> objs]
    ELSE IF p.kind = "err" THEN [out |-> "error", n |-> 0, objs |-> objs]
    ELSE IF p.kind = "panic" THEN [out |-> "panic", n |-> 0, objs |-> objs]
    ELSE IF f = "backend" THEN [out |-> "error", n |-> 0, objs |-> objs]
    ELSE IF ~Creatable(p.bucket, p.object) THEN [out |-> "error", n |-> 0, objs |-> objs]
    ELSE [out |-> "ok", n |-> 0, objs |-> objs]

WriteAllCall(objs, p, b, e, f) ==
    IF e.err THEN [out |-> "error", n |-> 0, objs |-> objs]
    ELSE IF p.kind = "err" THEN [out |-> "error", n |-> 0, objs |-> objs]
    ELSE IF p.kind = "panic" THEN [out |-> "panic", n |-> 0, objs |-> objs]
    ELSE IF f = "backend" THEN [out |-> "error", n |-> 0, objs |-> objs]
    ELSE IF ~Creatable(p.bucket, p.object) THEN [out |-> "error", n |-> 0, objs |-> objs]
    ELSE [out |-> "ok", n |-> 0, objs |-> Put(objs, p.bucket, p.object, b)]

WriteAllDone(h, f, b, p, e, r) ==
    /\ gsClient' = [gsClient EXCEPT ![h] = e.cli]
    /\ objects' = r.objs
    /\ last' = [NoCall EXCEPT !.op = "WriteAll", !.h = h, !.fault = f,
                              !.bytes = b, !.out = r.out, !.n = r.n]
    /\ written' = IF r.out = "ok"
                  THEN Put(Track(r.objs), p.bucket, p.object, b)
                  ELSE Track(r.objs)
    /\ UNCHANGED <<renaming, race, uri, reader, writer, storeUri, storeClient>>

WriteAll(h) ==
    \E f \in {"none", "client", "backend"}, b \in Payloads :
        /\ ClientFault(h, f)
        /\ WriteAllDone(h, f, b, parsed(uri[h]), ensureClient(gsClient[h], f),
                        WriteAllCall(objects, parsed(uri[h]), b,
                                     ensureClient(gsClient[h], f), f))

(***************************************************************************)
(* GcsFile.Exists: [out, flag, created, released].  It fetches the         *)
(* attributes through a second client of its own, closed on return;        *)
(* created and released count that client.                                 *)
(***************************************************************************)
\* Exists that takes the answer of the attributes fetch for success
ExistsIgnoringAttrs(objs, p, e, f) ==
    IF e.err THEN [out |-> "ok", flag |-> FALSE, created |-> 0, released |-> 0]
    ELSE IF p.kind = "err" THEN [out |-> "ok", flag |-> FALSE, created |-> 0, released |-> 0]
    ELSE IF p.kind = "panic" THEN [out |-> "panic", flag |-> FALSE, created |-> 0, released |-> 0]
    ELSE IF f = "client2" THEN [out |-> "ok", flag |-> FALSE, created |-> 0, released |-> 0]
    ELSE [out |-> "ok", flag |-> TRUE, created |-> 1, released |-> 1]

ExistsCall(objs, p, e, f) ==
    IF e.err THEN [out |-> "ok", flag |-> FALSE, created |-> 0, released |-> 0]
    ELSE IF p.kind = "err" THEN [out |-> "ok", flag |-> FALSE, created |-> 0, released |-> 0]
    ELSE IF p.kind = "panic" THEN [out |-> "panic", flag |-> FALSE, created |-> 0, released |-> 0]
    ELSE IF f = "client2" THEN [out |-> "ok", flag |-> FALSE, created |-> 0, released |-> 0]
    ELSE IF f = "backend" THEN [out |-> "ok", flag |-> FALSE, created |-> 1, released |-> 1]
    ELSE [out |-> "ok", flag |-> Found(objs, p.bucket, p.object),
          created |-> 1, released |-> 1]

ExistsDone(h, f, e, r) ==
    /\ gsClient' = [gsClient EXCEPT ![h] = e.cli]
    /\ last' = [NoCall EXCEPT !.op = "Exists", !.h = h, !.fault = f,
                              !.out = r.out, !.flag = r.flag,
                              !.created = r.created, !.released = r.released]
    /\ written' = Track(objects)
    /\ UNCHANGED <<renaming, race, objects, uri, reader, writer, storeUri, storeClient>>

Exists(h) ==
    \E f \in {"none", "client", "client2", "backend"} :
        /\ ClientFault(h, f)
        /\ ExistsDone(h, f, ensureClient(gsClient[h], f),
                      ExistsCall(objects, parsed(uri[h]),
                                 ensureClient(gsClient[h], f), f))

(***************************************************************************)
(* GcsFile.Delete: [out, objs]                                             *)
(***************************************************************************)
DeleteCall(objs, p, e, f) ==
    IF e.err THEN [out |-> "error", objs |-> objs]
    ELSE IF p.kind = "err" THEN [out |-> "error", objs |-> objs]
    ELSE IF p.kind = "panic" THEN [out |-> "panic", objs |-> objs]
    ELSE IF f = "backend" THEN [out |-> "error", objs |-> objs]
    ELSE IF ~Found(objs, p.bucket, p.object) THEN [out |-> "error", objs |-> objs]
    ELSE [out |-> "ok", objs |-> Remove(objs, p.bucket, p.object)]

DeleteDone(h, f, e, r) ==
    /\ gsClient' = [gsClient EXCEPT ![h] = e.cli]
    /\ objects' = r.objs
    /\ last' = [NoCall EXCEPT !.op = "Delete", !.h = h, !.fault = f, !.out = r.out]
    /\ written' = Track(r.objs)
    /\ UNCHANGED <<renaming, race, uri, reader, writer, storeUri, storeClient>>

Delete(h) ==
    \E f \in {"none", "client", "backend"} :
        /\ ClientFault(h, f)
        /\ DeleteDone(h, f, ensureClient(gsClient[h], f),
                      DeleteCall(objects, parsed(uri[h]),
                                 ensureClient(gsClient[h], f), f))

(***************************************************************************)
(* Cursors.  A write cursor buffers bytes for the object it was opened on; *)
(* the backend creates the object only when the cursor is closed.  A read  *)
(* cursor streams the content the object had when it was opened.           *)
(***************************************************************************)
NewWriter(b, o) == [nil |-> FALSE, bucket |-> b, object |-> o, buf |-> << >>, closed |-> FALSE]
NewReader(d) == [nil |-> FALSE, data |-> d, pos |-> 0, closed |-> FALSE]

Min(a, b) == IF a <= b THEN a ELSE b

\* storage.Writer.Write: [out, n, writer]
CursorWrite(w, b, f) ==
    IF f = "backend" THEN [out |-> "error", n |-> 0, writer |-> w]
    ELSE IF ~Creatable(w.bucket, w.object) THEN [out |-> "error", n |-> 0, writer |-> w]
    ELSE [out |-> "ok", n |-> Len(b), writer |-> [w EXCEPT !.buf = w.buf \o b]]

\* storage.Reader.Read of k bytes, k the smaller of the buffer's length and
\* what is left: [out, data, reader]
CursorTake(rd, k, f) ==
    IF f = "backend" THEN [out |-> "error", data |-> << >>, reader |-> rd]
    ELSE IF k = 0 THEN [out |-> "eof", data |-> << >>, reader |-> rd]
    ELSE [out |-> "ok", data |-> SubSeq(rd.data, rd.pos + 1, rd.pos + k),
          reader |-> [rd EXCEPT !.pos = rd.pos + k]]

CursorRead(rd, n, f) == CursorTake(rd, Min(n, Len(rd.data) - rd.pos), f)

(***************************************************************************)
(* GcsFile.Write: [out, n, writer]                                         *)
(***************************************************************************)
WriteCall(w, p, b, e, f) ==
    IF e.err THEN [out |-> "error", n |-> 0, writer |-> w]
    ELSE IF ~w.nil THEN CursorWrite(w, b, f)
    ELSE IF p.kind = "err" THEN [out |-> "error", n |-> 0, writer |-> w]
    ELSE IF p.kind = "panic" THEN [out |-> "panic", n |-> 0, writer |-> w]
    ELSE CursorWrite(NewWriter(p.bucket, p.object), b, f)

WriteDone(h, f, b, e, r) ==
    /\ gsClient' = [gsClient EXCEPT ![h] = e.cli]
    /\ writer' = [writer EXCEPT ![h] = r.writer]
    /\ last' = [NoCall EXCEPT !.op = "Write", !.h = h, !.fault = f,
                              !.bytes = b, !.out = r.out, !.n = r.n]
    /\ written' = Track(objects)
    /\ UNCHANGED <<renaming, race, objects, uri, reader, storeUri, storeClient>>

Buffered(w) == IF w.nil THEN 0 ELSE Len(w.buf)

Write(h) ==
    \E f \in {"none", "client", "backend"}, b \in Payloads :
        /\ ClientFault(h, f)
        /\ Len(b) > 0
        /\ Buffered(writer[h]) + Len(b) <= MaxBuf
        /\ WriteDone(h, f, b, ensureClient(gsClient[h], f),
                     WriteCall(writer[h], parsed(uri[h]), b,
                               ensureClient(gsClient[h], f), f))

(***************************************************************************)
(* GcsFile.Read: [out, data, reader].  Opening the cursor fails under the  *)
(* fault "open" and for an object the backend does not hold.               *)
(***************************************************************************)
\* Read that opens a cursor on every call, whatever the field holds
ReadReopening(objs, rd, p, n, e, f) ==
    IF e.err THEN [out |-> "error", data |-> << >>, reader |-> rd]
    ELSE IF p.kind = "err" THEN [out |-> "error", data |-> << >>, reader |-> rd]
    ELSE IF p.kind = "panic" THEN [out |-> "panic", data |-> << >>, reader |-> rd]
    ELSE IF f = "open" THEN [out |-> "error", data |-> << >>, reader |-> rd]
    ELSE IF ~Found(objs, p.bucket, p.object)
    THEN [out |-> "error", data |-> << >>, reader |-> rd]
    ELSE CursorRead(NewReader(objs[<<p.bucket, p.object>>]), n, f)

ReadCall(objs, rd, p, n, e, f) ==
    IF e.err THEN [out |-> "error", data |-> << >>, reader |-> rd]
    ELSE IF ~rd.nil THEN CursorRead(rd, n, f)
    ELSE IF p.kind = "err" THEN [out |-> "error", data |-> << >>, reader |-> rd]
    ELSE IF p.kind = "panic" THEN [out |-> "panic", data |-> << >>, reader |-> rd]
    ELSE IF f = "open" THEN [out |-> "error", data |-> << >>, reader |-> rd]
    ELSE IF ~Found(objs, p.bucket, p.object)
    THEN [out |-> "error", data |-> << >>, reader |-> rd]
    ELSE CursorRead(NewReader(objs[<<p.bucket, p.object>>]), n, f)

ReadDone(h, f, n, e, r) ==
    /\ gsClient' = [gsClient EXCEPT ![h] = e.cli]
    /\ reader' = [reader EXCEPT ![h] = r.reader]
    /\ last' = [NoCall EXCEPT !.op = "Read", !.h = h, !.fault = f,
                              !.n = n, !.out = r.out, !.data = r.data]
    /\ written' = Track(objects)
    /\ UNCHANGED <<renaming, race, objects, uri, writer, storeUri, storeClient>>

Read(h) ==
    \E f \in {"none", "client", "open", "backend"}, n \in ReadSizes :
        /\ ClientFault(h, f)
        /\ f = "open" => reader[h].nil
        /\ ReadDone(h, f, n, ensureClient(gsClient[h], f),
                    ReadCall(objects, reader[h], parsed(uri[h]), n,
                             ensureClient(gsClient[h], f), f))

(***************************************************************************)
(* Read and Write called concurrently on the handle RaceHandle, statement  *)
(* by statement: ensureClient, the test of the cursor field, the opening   *)
(* of a cursor with the assignment to the field, and the call on the       *)
(* cursor the field then holds.  Nothing orders the statements of one      *)
(* call with those of the other; an access to the field sees the value     *)
(* stored last.                                                            *)
(***************************************************************************)
RaceHandle == "h1"

\* the call of p begins: ensureClient
RaceBegin(p) ==
    \E k \in {"Read", "Write"} :
        /\ race.pc[p] = "idle"
        /\ gsClient' = [gsClient EXCEPT ![RaceHandle] = ensureClient(@, "none").cli]
        /\ race' = [race EXCEPT !.pc[p] = "check", !.kind[p] = k]
        /\ UNCHANGED <<renaming, objects, uri, reader, writer, storeUri, storeClient, last, written>>

\* if t.reader != nil / if t.writer != nil
Checked(r, p, isNil) ==
    [r EXCEPT !.pc[p] = IF isNil THEN "open" ELSE "use", !.sawNil[p] = isNil]

RaceCheck(p) ==
    /\ race.pc[p] = "check"
    /\ race' = Checked(race, p, IF race.kind[p] = "Read" THEN reader[RaceHandle].nil
                                ELSE writer[RaceHandle].nil)
    /\ UNCHANGED <<renaming, objects, uri, gsClient, reader, writer, storeUri, storeClient, last, written>>

\* a cursor that closes the one it replaces in the field
RaceOpenedClosing(r, p) ==
    [r EXCEPT !.pc[p] = "use", !.opened[r.kind[p]] = @ + 1,
              !.released[r.kind[p]] = IF r.opened[r.kind[p]] > 0 THEN @ + 1 ELSE @]

\* the call of p has opened a cursor and stored it in the field
RaceOpened(r, p) ==
    [r EXCEPT !.pc[p] = "use", !.opened[r.kind[p]] = @ + 1]

RaceFailed(r, p) == [r EXCEPT !.pc[p] = "failed"]

\* parseUri(t.uri), then ...NewReader(t.context): the request of the
\* backend.  A URI that does not parse ends the call before the request,
\* with the error parseUri returns or with its panic on an empty path; the
\* result of the request, a cursor or nil with an error, is stored in the
\* field by the next statement
RaceOpenReaderOn(p, q) ==
    /\ race.pc[p] = "open"
    /\ race.kind[p] = "Read"
    /\ race' = IF q.kind = "panic" THEN [race EXCEPT !.pc[p] = "panic"]
               ELSE IF q.kind = "err" THEN RaceFailed(race, p)
               ELSE [race EXCEPT !.pc[p] = "store",
                                 !.got[p] = IF Found(objects, q.bucket, q.object)
                                            THEN NewReader(objects[<<q.bucket, q.object>>])
                                            ELSE NoCursor]
    /\ UNCHANGED <<renaming, objects, uri, gsClient, reader, writer, storeUri, storeClient, last, written>>

RaceOpenReader(p) == RaceOpenReaderOn(p, parsed(uri[RaceHandle]))

\* t.reader, err = ...: the field takes what the request returned, nil when
\* it failed, and the call returns the error
RaceStoreReader(p) ==
    /\ race.pc[p] = "store"
    /\ reader' = [reader EXCEPT ![RaceHandle] = race.got[p]]
    /\ race' = IF race.got[p].nil
               THEN RaceFailed([race EXCEPT !.got[p] = NoCursor], p)
               ELSE RaceOpened([race EXCEPT !.got[p] = NoCursor], p)
    /\ UNCHANGED <<renaming, objects, uri, gsClient, writer, storeUri, storeClient, last, written>>

\* parseUri(t.uri), which returns an error or panics on an empty path, then
\* t.writer = ...NewWriter(t.context)
RaceOpenWriterOn(p, q) ==
    /\ race.pc[p] = "open"
    /\ race.kind[p] = "Write"
    /\ IF q.kind = "ok"
       THEN /\ writer' = [writer EXCEPT ![RaceHandle] = NewWriter(q.bucket, q.object)]
            /\ race' = RaceOpened(race, p)
       ELSE /\ writer' = writer
            /\ race' = IF q.kind = "panic" THEN [race EXCEPT !.pc[p] = "panic"]
                        ELSE RaceFailed(race, p)
    /\ UNCHANGED <<renaming, objects, uri, gsClient, reader, storeUri, storeClient, last, written>>

RaceOpenWriter(p) == RaceOpenWriterOn(p, parsed(uri[RaceHandle]))

\* return t.reader.Read(p): the field is read again, and the call on a nil
\* field is a nil dereference
RaceRead(p) ==
    \E n \in ReadSizes :
        /\ race.pc[p] = "use"
        /\ race.kind[p] = "Read"
        /\ reader' = [reader EXCEPT ![RaceHandle] = IF @.nil THEN @
                                                    ELSE CursorRead(@, n, "none").reader]
        /\ race' = [race EXCEPT !.pc[p] = IF reader[RaceHandle].nil THEN "panic" ELSE "done"]
        /\ UNCHANGED <<renaming, objects, uri, gsClient, writer, storeUri, storeClient, last, written>>

\* return t.writer.Write(p)
RaceWrite(p) ==
    \E b \in Payloads :
        /\ race.pc[p] = "use"
        /\ race.kind[p] = "Write"
        /\ Len(b) > 0
        /\ Buffered(writer[RaceHandle]) + Len(b) <= MaxBuf
        /\ writer' = [writer EXCEPT ![RaceHandle] = CursorWrite(@, b, "none").writer]
        /\ race' = [race EXCEPT !.pc[p] = "done"]
        /\ UNCHANGED <<renaming, objects, uri, gsClient, reader, storeUri, storeClient, last, written>>

(***************************************************************************)
(* GcsFile.Close: closes the client when there is one, and nothing else.   *)
(* The field keeps the closed client, so every method still runs after     *)
(* Close.  What a request through a closed client returns is the client    *)
(* library's: it is served or it fails, as any request may (the fault      *)
(* "backend").                                                             *)
(***************************************************************************)
CloseCall(c) == IF c.nil THEN c ELSE Client(c.closes + 1)

Close(h) ==
    /\ gsClient[h].closes < MaxCloses
    /\ gsClient' = [gsClient EXCEPT ![h] = CloseCall(gsClient[h])]
    /\ last' = [NoCall EXCEPT !.op = "Close", !.h = h, !.out = "ok"]
    /\ written' = Track(objects)
    /\ UNCHANGED <<renaming, race, objects, uri, reader, writer, storeUri, storeClient>>

(***************************************************************************)
(* GcsFile.Copy to a sink: [out, n, data, sinkClosed].  data is what the   *)
(* sink received.  Reader and sink are closed after io.Copy only.  Under   *)
(* the fault "stream" io.Copy fails after half of the content.             *)
(***************************************************************************)
Streamed(d, f) ==
    [out |-> IF f = "stream" THEN "error" ELSE "ok",
     n |-> IF f = "stream" THEN Len(d) \div 2 ELSE Len(d),
     data |-> IF f = "stream" THEN SubSeq(d, 1, Len(d) \div 2) ELSE d,
     sinkClosed |-> TRUE]

CopyCall(objs, p, e, f) ==
    IF e.err THEN [out |-> "error", n |-> 0, data |-> << >>, sinkClosed |-> FALSE]
    ELSE IF p.kind = "err"
    THEN [out |-> "error", n |-> 0, data |-> << >>, sinkClosed |-> FALSE]
    ELSE IF p.kind = "panic"
    THEN [out |-> "panic", n |-> 0, data |-> << >>, sinkClosed |-> FALSE]
    ELSE IF f = "backend"
    THEN [out |-> "error", n |-> 0, data |-> << >>, sinkClosed |-> FALSE]
    ELSE IF ~Found(objs, p.bucket, p.object)
    THEN [out |-> "error", n |-> 0, data |-> << >>, sinkClosed |-> FALSE]
    ELSE Streamed(objs[<<p.bucket, p.object>>], f)

CopyDone(h, f, e, r) ==
    /\ gsClient' = [gsClient EXCEPT ![h] = e.cli]
    /\ last' = [NoCall EXCEPT !.op = "Copy", !.h = h, !.fault = f,
                              !.out = r.out, !.n = r.n, !.data = r.data,
                              !.sinkClosed = r.sinkClosed]
    /\ written' = Track(objects)
    /\ UNCHANGED <<renaming, race, objects, uri, reader, writer, storeUri, storeClient>>

Copy(h) ==
    \E f \in {"none", "client", "backend", "stream"} :
        /\ ClientFault(h, f)
        /\ CopyDone(h, f, ensureClient(gsClient[h], f),
                    CopyCall(objects, parsed(uri[h]),
                             ensureClient(gsClient[h], f), f))

(***************************************************************************)
(* GcsFile.Rename makes two requests of the backend, the copy and then the *)
(* delete of the original, and other calls may run between the two: the    *)
(* copy is visible before the original is gone.  RenameCopy is the call    *)
(* up to and including the copy, RenameDelete the rest of it.  Each gives  *)
(* [out, str, target, objs, uri]: target is the new URI computed ("" when  *)
(* the call ends before computing it), out is "pending" when the copy is   *)
(* made and the delete is still to come.  The copy needs the source object *)
(* and a destination the backend accepts; it fails under the fault "copy", *)
(* the delete under the fault "delete" or when the original is gone.       *)
(* The model follows one Rename at a time on a handle.                     *)
(***************************************************************************)
RenameFail(o, t, objs, u) == [out |-> o, str |-> "", target |-> t, objs |-> objs, uri |-> u]

\* dst.CopierFrom(src).Run
CopyObject(objs, p, q) == Put(objs, q.bucket, q.object, objs[<<p.bucket, p.object>>])

RenameCopyCall(objs, u, p, c, new, q, e, f) ==
    IF e.err THEN RenameFail("error", "", objs, u)
    ELSE IF p.kind = "err" THEN RenameFail("error", "", objs, u)
    ELSE IF p.kind = "panic" THEN RenameFail("panic", "", objs, u)
    ELSE IF c.err THEN RenameFail("error", "", objs, u)
    ELSE IF q.kind = "err" THEN RenameFail("error", new, objs, u)
    ELSE IF q.kind = "panic" THEN RenameFail("panic", new, objs, u)
    ELSE IF f = "copy" THEN RenameFail("error", new, objs, u)
    ELSE IF ~Found(objs, p.bucket, p.object) THEN RenameFail("error", new, objs, u)
    ELSE IF ~Creatable(q.bucket, q.object) THEN RenameFail("error", new, objs, u)
    ELSE [out |-> "pending", str |-> "", target |-> new,
          objs |-> CopyObject(objs, p, q), uri |-> u]

RenameCopyDone(h, f, pattern, e, r) ==
    /\ gsClient' = [gsClient EXCEPT ![h] = e.cli]
    /\ objects' = r.objs
    /\ renaming' = [renaming EXCEPT ![h] = IF r.out = "pending"
                                           THEN [on |-> TRUE, arg |-> pattern, pre |-> objects]
                                           ELSE NoRename]
    /\ last' = [NoCall EXCEPT !.op = "Rename", !.h = h, !.fault = f,
                              !.arg = pattern, !.out = r.out,
                              !.str = r.str, !.target = r.target,
                              !.pre = objects, !.preUri = uri[h]]
    /\ written' = Track(r.objs)
    /\ UNCHANGED <<race, uri, reader, writer, storeUri, storeClient>>

RenameCopy(h) ==
    /\ ~renaming[h].on
    /\ \E f \in {"none", "client", "copy"}, pattern \in Patterns :
        /\ ClientFault(h, f)
        /\ RenameCopyDone(h, f, pattern, ensureClient(gsClient[h], f),
                          RenameCopyCall(objects, uri[h], parsed(uri[h]),
                                         RenameTable[pattern].c, RenameTable[pattern].new,
                                         parsed(RenameTable[pattern].new),
                                         ensureClient(gsClient[h], f), f))

\* src.Delete, then t.uri = newUri
RenameDeleteCall(objs, u, p, new, f) ==
    IF f = "delete" THEN RenameFail("error", new, objs, u)
    ELSE IF ~Found(objs, p.bucket, p.object) THEN RenameFail("error", new, objs, u)
    ELSE [out |-> "ok", str |-> new, target |-> new,
          objs |-> Remove(objs, p.bucket, p.object), uri |-> new]

RenameDeleteDone(h, f, r) ==
    /\ objects' = r.objs
    /\ uri' = [uri EXCEPT ![h] = r.uri]
    /\ renaming' = [renaming EXCEPT ![h] = NoRename]
    /\ last' = [NoCall EXCEPT !.op = "Rename", !.h = h, !.fault = f,
                              !.arg = renaming[h].arg, !.out = r.out,
                              !.str = r.str, !.target = r.target,
                              !.pre = renaming[h].pre, !.preUri = uri[h]]
    /\ written' = Track(r.objs)
    /\ UNCHANGED <<race, gsClient, reader, writer, storeUri, storeClient>>

RenameDelete(h) ==
    /\ renaming[h].on
    /\ \E f \in {"none", "delete"} :
        RenameDeleteDone(h, f, RenameDeleteCall(objects, uri[h], parsed(uri[h]),
                                                RenameTable[renaming[h].arg].new, f))

Rename(h) ==
    \/ RenameCopy(h)
    \/ RenameDelete(h)

(***************************************************************************)
(* regexp of the Go standard library, for the filters of the model:        *)
(* literals, ".", "\c" (an escaped literal), "^", "$" and "*".  Compile    *)
(* rejects a "*" with nothing to repeat, a trailing backslash and a        *)
(* bracket that is never closed; other operators are not modelled.         *)
(***************************************************************************)
RECURSIVE RegexErr(_, _)
RegexErr(p, canRepeat) ==
    IF Len(p) = 0 THEN FALSE
    ELSE IF Head(p) = "\\" THEN IF Len(p) = 1 THEN TRUE ELSE RegexErr(From(p, 3), TRUE)
    ELSE IF Head(p) = "*" THEN IF canRepeat THEN RegexErr(Tail(p), FALSE) ELSE TRUE
    ELSE IF Head(p) = "(" THEN IF Contains(Tail(p), ")") THEN RegexErr(Tail(p), FALSE) ELSE TRUE
    ELSE IF Head(p) = "[" THEN IF Contains(Tail(p), "]") THEN RegexErr(Tail(p), FALSE) ELSE TRUE
    ELSE RegexErr(Tail(p), TRUE)

\* regexp.Compile(filter) returns an error
CompileErr(filter) == RegexErr(filter, FALSE)

AtomLen(p) == IF Head(p) = "\\" THEN 2 ELSE 1

AtomMatches(p, c) ==
    IF Head(p) = "\\" THEN c = Ch(p, 2)
    ELSE IF Head(p) = "." THEN TRUE
    ELSE c = Head(p)

Starred(p) == IF Len(p) > AtomLen(p) THEN Ch(p, AtomLen(p) + 1) = "*" ELSE FALSE

Here(p, s, i) == IF i <= Len(s) THEN AtomMatches(p, Ch(s, i)) ELSE FALSE

\* the pattern p matches a prefix of s[i..]
RECURSIVE MatchAt(_, _, _)
MatchAt(p, s, i) ==
    IF Len(p) = 0 THEN TRUE
    ELSE IF Head(p) = "^" THEN i = 1 /\ MatchAt(Tail(p), s, i)
    ELSE IF Head(p) = "$" THEN i = Len(s) + 1 /\ MatchAt(Tail(p), s, i)
    ELSE IF Starred(p)
    THEN IF MatchAt(From(p, AtomLen(p) + 2), s, i) THEN TRUE
         ELSE Here(p, s, i) /\ MatchAt(p, s, i + 1)
    ELSE Here(p, s, i) /\ MatchAt(From(p, AtomLen(p) + 1), s, i + 1)

\* Regexp.MatchString: the pattern matches somewhere in s
MatchString(p, s) == \E i \in 1 .. Len(s) + 1 : MatchAt(p, s, i)

\* fmt.Sprintf("gcs://%s/%s", bucket, attrs.Name)
CandidateUri(bucket, name) == "gcs://" \o bucket \o "/" \o name

\* the objects of the model, and the filters tabulated for their candidate
\* URIs (the table holds the values of the definitions above, computed once)
ModelKeys ==
    DOMAIN InitialObjects \cup
    {<<ParseTable[u].bucket, ParseTable[u].object>> : u \in ModelUris}

FilterTable ==
    [x \in Filters \X ModelKeys |->
        IF CompileErr(x[1]) THEN TRUE
        ELSE MatchString(x[1], CandidateUri(x[2][1], x[2][2]))]

\* rgx == nil, or rgx.MatchString(filePath) for the object name of bucket
Passes(filter, bucket, name) == FilterTable[<<filter, <<bucket, name>>>>]

(***************************************************************************)
(* The listing of a bucket: the names with the query's prefix, in the      *)
(* backend's order (ascending by name).                                    *)
(***************************************************************************)
\* the names and the prefixes of the model, with the order of the names and
\* the prefix test tabulated (the values of StrLess and HasPrefix)
ModelNames == {k[2] : k \in ModelKeys}

NameRank == [n \in ModelNames |-> Cardinality({m \in ModelNames : StrLess(m, n)})]

PrefixTable ==
    [x \in ModelNames \X {ParseTable[u].object \o "/" : u \in StoreUris} |->
        HasPrefix(x[1], x[2])]

Least(S) == CHOOSE x \in S : \A y \in S : NameRank[x] <= NameRank[y]

RECURSIVE SortNames(_)
SortNames(S) ==
    IF S = {} THEN << >> ELSE <<Least(S)>> \o SortNames(S \ {Least(S)})

Listing(objs, bucket, prefix) ==
    SortNames({k[2] : k \in {k \in DOMAIN objs : k[1] = bucket /\ PrefixTable[<<k[2], prefix>>]}})

\* the listing Apply iterates over (empty when the store URI does not parse)
Entries(objs, p) ==
    IF p.kind = "ok" THEN Listing(objs, p.bucket, p.object \o "/") ELSE << >>

\* Apply without the test of attrs.Size
RECURSIVE VisitAnySize(_, _, _, _, _)
VisitAnySize(objs, bucket, names, filter, k) ==
    IF k = 0 \/ Len(names) = 0 THEN << >>
    ELSE (IF Passes(filter, bucket, Head(names))
          THEN <<CandidateUri(bucket, Head(names))>>
          ELSE << >>)
         \o VisitAnySize(objs, bucket, Tail(names), filter, k - 1)

\* the URIs Apply passes to the action among the first k entries of names
RECURSIVE Visit(_, _, _, _, _)
Visit(objs, bucket, names, filter, k) ==
    IF k = 0 \/ Len(names) = 0 THEN << >>
    ELSE (IF Len(objs[<<bucket, Head(names)>>]) > 0 /\ Passes(filter, bucket, Head(names))
          THEN <<CandidateUri(bucket, Head(names))>>
          ELSE << >>)
         \o Visit(objs, bucket, Tail(names), filter, k - 1)

(***************************************************************************)
(* GcsFileStore.Apply: [out, seq, created, released], given the result p   *)
(* of parseUri(f.uri) and the listing names.  seq holds the URIs the       *)
(* action was called with, in order; created and released count the        *)
(* call's own client.  Under the fault "abort" the iterator fails after k  *)
(* entries.  A bucket that does not exist fails the first Next.            *)
(***************************************************************************)
Ended(o, v, c) == [out |-> o, seq |-> v, created |-> c, released |-> c]

\* Apply that goes on with the listing after the iterator failed
ApplyPastAbort(objs, p, names, filter, f, k) ==
    IF p.kind = "err" THEN Ended("error", << >>, 0)
    ELSE IF p.kind = "panic" THEN Ended("panic", << >>, 0)
    ELSE IF CompileErr(filter) /\ Len(filter) > 0 THEN Ended("error", << >>, 0)
    ELSE IF f = "client" THEN Ended("error", << >>, 0)
    ELSE IF p.bucket \notin Buckets THEN Ended("error", << >>, 1)
    ELSE IF f = "abort" THEN Ended("error", Visit(objs, p.bucket, names, filter, Len(names)), 1)
    ELSE Ended("ok", Visit(objs, p.bucket, names, filter, Len(names)), 1)

ApplyCall(objs, p, names, filter, f, k) ==
    IF p.kind = "err" THEN Ended("error", << >>, 0)
    ELSE IF p.kind = "panic" THEN Ended("panic", << >>, 0)
    ELSE IF CompileErr(filter) /\ Len(filter) > 0 THEN Ended("error", << >>, 0)
    ELSE IF f = "client" THEN Ended("error", << >>, 0)
    ELSE IF p.bucket \notin Buckets THEN Ended("error", << >>, 1)
    ELSE IF f = "abort" THEN Ended("error", Visit(objs, p.bucket, names, filter, k), 1)
    ELSE Ended("ok", Visit(objs, p.bucket, names, filter, Len(names)), 1)

ApplyDone(filter, f, k, r) ==
    /\ last' = [NoCall EXCEPT !.op = "Apply", !.arg = filter, !.fault = f,
                              !.n = k, !.out = r.out, !.seq = r.seq,
                              !.created = r.created, !.released = r.released]
    /\ written' = Track(objects)
    /\ UNCHANGED <<renaming, race, objects, uri, gsClient, reader, writer, storeUri, storeClient>>

ApplyOn(names) ==
    \E k \in 0 .. Len(names), f \in {"none", "client", "abort"}, filter \in Filters :
        /\ f # "abort" => k = 0
        /\ ApplyDone(filter, f, k,
                     ApplyCall(objects, parsed(storeUri), names, filter, f, k))

Apply == ApplyOn(Entries(objects, parsed(storeUri)))

(***************************************************************************)
(* GcsFileStore.List: the result and the error of Apply with an action     *)
(* that appends NewGcsFile(filePath); seq holds the URIs of the handles.   *)
(***************************************************************************)
ListCall(r) == [out |-> r.out, seq |-> r.seq, created |-> r.created, released |-> r.released]

ListDone(filter, f, k, r) ==
    /\ last' = [NoCall EXCEPT !.op = "List", !.arg = filter, !.fault = f,
                              !.n = k, !.out = r.out, !.seq = r.seq,
                              !.created = r.created, !.released = r.released]
    /\ written' = Track(objects)
    /\ UNCHANGED <<renaming, race, objects, uri, gsClient, reader, writer, storeUri, storeClient>>

ListOn(names) ==
    \E k \in 0 .. Len(names), f \in {"none", "client", "abort"}, filter \in Filters :
        /\ f # "abort" => k = 0
        /\ ListDone(filter, f, k,
                    ListCall(ApplyCall(objects, parsed(storeUri), names, filter, f, k)))

List == ListOn(Entries(objects, parsed(storeUri)))

(***************************************************************************)
(* GcsFileStore.Exists and GcsFileStore.Delete: the operation of a         *)
(* transient handle NewGcsFile(target), which is never closed.  created    *)
(* and released count the clients of the call: the handle's own client     *)
(* (ensureClient) and, for Exists, the second client of GcsFile.Exists.    *)
(***************************************************************************)
Opened(e) == IF e.err THEN 0 ELSE 1

StoreExistsDone(a, t, f, e, r) ==
    /\ last' = [NoCall EXCEPT !.op = "StoreExists", !.arg = a, !.target = t,
                              !.fault = f, !.out = r.out, !.flag = r.flag,
                              !.created = Opened(e) + r.created,
                              !.released = r.released]
    /\ written' = Track(objects)
    /\ UNCHANGED <<renaming, race, objects, uri, gsClient, reader, writer, storeUri, storeClient>>

StoreExistsOn(a, t) ==
    \E f \in {"none", "client", "client2", "backend"} :
        StoreExistsDone(a, t, f, ensureClient(NoClient, f),
                        ExistsCall(objects, parsed(t), ensureClient(NoClient, f), f))

StoreExists == \E a \in StoreArgs : StoreExistsOn(a, StoreTarget(storeUri, a))

StoreDeleteDone(a, t, f, e, r) ==
    /\ objects' = r.objs
    /\ last' = [NoCall EXCEPT !.op = "StoreDelete", !.arg = a, !.target = t,
                              !.fault = f, !.out = r.out,
                              !.created = Opened(e), !.released = 0]
    /\ written' = Track(r.objs)
    /\ UNCHANGED <<renaming, race, uri, gsClient, reader, writer, storeUri, storeClient>>

StoreDeleteOn(a, t) ==
    \E f \in {"none", "client", "backend"} :
        StoreDeleteDone(a, t, f, ensureClient(NoClient, f),
                        DeleteCall(objects, parsed(t), ensureClient(NoClient, f), f))

StoreDelete == \E a \in StoreArgs : StoreDeleteOn(a, StoreTarget(storeUri, a))

(***************************************************************************)
(* GcsFileStore.Close: closes the client when there is one.                *)
(***************************************************************************)
StoreClose ==
    /\ storeClient.closes < MaxCloses
    /\ storeClient' = CloseCall(storeClient)
    /\ last' = [NoCall EXCEPT !.op = "StoreClose", !.out = "ok"]
    /\ written' = Track(objects)
    /\ UNCHANGED <<renaming, race, objects, uri, gsClient, reader, writer, storeUri>>

(***************************************************************************)
(* Specifications.                                                         *)
(***************************************************************************)
\* the handles and the store a behaviour starts with: the URIs of the two
\* handles, the store's URI, and the store's client (nil when the
\* constructor's storage.NewClient failed)
Configs ==
    {<<"gs://b/dir/file.txt", "gs://b/dir/file.txt", "gs://b/dir", Client(0)>>,
     <<"gs://b/dir/file.txt", "gs://b/dir/new.txt", "gs://b/dir", Client(0)>>,
     <<"gs://b/dir/a%2541", "gs://b/dir/file.txt", "gs://b/dir", NoClient>>,
     <<"gs://b", "gs://b/dir/file.txt", "gs://b", Client(0)>>}

Init ==
    /\ objects = InitialObjects
    /\ \E c \in Configs : /\ uri = [h \in Handles |-> IF h = "h1" THEN c[1] ELSE c[2]]
                          /\ storeUri = c[3]
                          /\ storeClient = c[4]
    /\ gsClient = [h \in Handles |-> NoClient]
    /\ reader = [h \in Handles |-> NoCursor]
    /\ writer = [h \in Handles |-> NoCursor]
    /\ last = NoCall
    /\ written = << >>
    /\ race = RaceIdle
    /\ renaming = [h \in Handles |-> NoRename]

\* every operation of a file handle and of the store
Next ==
    \/ \E h \in Handles : ReadAll(h)
    \/ \E h \in Handles : WriteAll(h)
    \/ \E h \in Handles : Exists(h)
    \/ \E h \in Handles : Delete(h)
    \/ \E h \in Handles : Write(h)
    \/ \E h \in Handles : Read(h)
    \/ \E h \in Handles : Close(h)
    \/ \E h \in Handles : Copy(h)
    \/ \E h \in Handles : Rename(h)
    \/ Apply
    \/ List
    \/ StoreExists
    \/ StoreDelete
    \/ StoreClose

Spec == Init /\ [][Next]_vars

\* the whole-object operations of the file handles, with the two steps of
\* Rename on one of them; the calls of the other handle run between the two
NextFile ==
    \/ \E h \in Handles : ReadAll(h)
    \/ \E h \in Handles : WriteAll(h)
    \/ \E h \in Handles : Exists(h)
    \/ \E h \in Handles : Delete(h)
    \/ Rename("h1")

SpecFile == Init /\ [][NextFile]_vars

\* the incremental operations of one file handle, with those that read
\* and replace the object behind its cursors
NextStream ==
    \/ Write("h1")
    \/ Read("h1")
    \/ Copy("h1")
    \/ WriteAll("h1")
    \/ Delete("h1")
    \/ Close("h1")

SpecStream == Init /\ [][NextStream]_vars

\* the operations of the store, with those of a file handle that change
\* the objects it lists
NextStore ==
    \/ Apply
    \/ List
    \/ WriteAll("h1")
    \/ Delete("h1")
    \/ Rename("h1")

SpecStore == Init /\ [][NextStore]_vars

\* the operations of one file handle that open cursors: the cached ones of
\* Read and Write and the fresh ones of ReadAll, WriteAll and Copy
NextCursor ==
    \/ Read("h1")
    \/ Write("h1")
    \/ ReadAll("h1")
    \/ WriteAll("h1")
    \/ Copy("h1")
    \/ Delete("h1")

SpecCursor == Init /\ [][NextCursor]_vars

\* Read and Write running concurrently on one handle, with the operations
\* of the other handle that replace and delete the object
NextRace ==
    \/ \E p \in Procs : RaceBegin(p)
    \/ \E p \in Procs : RaceCheck(p)
    \/ \E p \in Procs : RaceOpenReader(p)
    \/ \E p \in Procs : RaceStoreReader(p)
    \/ \E p \in Procs : RaceOpenWriter(p)
    \/ \E p \in Procs : RaceRead(p)
    \/ \E p \in Procs : RaceWrite(p)
    \/ WriteAll("h2")
    \/ Delete("h2")

SpecRace == Init /\ [][NextRace]_vars

\* the store's operations on single objects and its Close, with the
\* operations of a file handle that create and close
NextStoreOps ==
    \/ StoreExists
    \/ StoreDelete
    \/ StoreClose
    \/ WriteAll("h1")
    \/ Close("h1")

SpecStoreOps == Init /\ [][NextStoreOps]_vars

(***************************************************************************)
(* parseUri as a function of its argument: handles constructed with the    *)
(* URIs scheme://bucket/key for every key of up to MaxKeyLen characters    *)
(* of KeyChars, and the call of parseUri on the handle's URI.              *)
(***************************************************************************)
MaxKeyLen == 3

KeyChars == {"a", "/", "%", "2", "5", "?", "#"}

Schemes == {"gs", "gcs"}

RECURSIVE Join(_)
Join(cs) == IF Len(cs) = 0 THEN "" ELSE Head(cs) \o Join(Tail(cs))

Keys == {Join(cs) : cs \in UNION {[1 .. n -> KeyChars] : n \in 1 .. MaxKeyLen}}

\* fmt.Sprintf("%s://%s/%s", scheme, bucket, key)
BuildUri(scheme, bucket, key) == scheme \o "://" \o bucket \o "/" \o key

UriInputs == {BuildUri(s, b, k) : s \in Schemes, b \in Buckets, k \in Keys}

InitUri ==
    /\ objects = InitialObjects
    /\ \E u \in UriInputs : uri = [h \in Handles |-> u]
    /\ storeUri = "gs://b/dir"
    /\ storeClient = NoClient
    /\ gsClient = [h \in Handles |-> NoClient]
    /\ reader = [h \in Handles |-> NoCursor]
    /\ writer = [h \in Handles |-> NoCursor]
    /\ last = NoCall
    /\ written = << >>
    /\ race = RaceIdle
    /\ renaming = [h \in Handles |-> NoRename]

\* bucket, object, err := parseUri(t.uri)
ParseCall(u, p) ==
    [NoCall EXCEPT !.op = "parseUri", !.arg = u, !.out = p.kind,
                   !.str = p.bucket, !.target = p.object]

ParseHandleUri(h) ==
    /\ last' = ParseCall(uri[h], parseUri(uri[h]))
    /\ UNCHANGED <<renaming, race, objects, uri, gsClient, reader, writer, storeUri, storeClient, written>>

NextUri == \E h \in Handles : ParseHandleUri(h)

SpecUri == InitUri /\ [][NextUri]_vars

(***************************************************************************)
(* Properties.                                                             *)
(***************************************************************************)
\* the (bucket, name) a handle's URI parses to
HandleKey(h) == <<parsed(uri[h]).bucket, parsed(uri[h]).object>>

UriKey(u) == <<parsed(u).bucket, parsed(u).object>>

\* C1: a successful WriteAll(data), the empty payload included, followed by
\* ReadAll on a handle for the same URI, with no other write or delete of
\* the object in between, returns exactly data.  (written holds data for
\* exactly the objects nothing has changed since their WriteAll.)
C1_WriteAllThenReadAll ==
    (last.op = "ReadAll" /\ last.fault = "none" /\ HandleKey(last.h) \in DOMAIN written)
        => (last.out = "ok" /\ last.data = written[HandleKey(last.h)])

\* C1, reached: ReadAll returned the empty payload a WriteAll had stored
C1_Witness ==
    /\ last.op = "ReadAll"
    /\ last.out = "ok"
    /\ HandleKey(last.h) \in DOMAIN written
    /\ written[HandleKey(last.h)] = << >>
    /\ last.data = << >>

\* C2: after a successful Rename on a handle whose object exists, the object
\* at the returned URI exists with the content the original had, the object
\* at the handle's previous URI no longer exists, and the handle's URI is
\* the returned URI.
C2_RenameMovesObject ==
    (last.op = "Rename" /\ last.out = "ok" /\ UriKey(last.preUri) \in DOMAIN last.pre)
        => /\ UriKey(last.str) \in DOMAIN objects
           /\ objects[UriKey(last.str)] = last.pre[UriKey(last.preUri)]
           /\ UriKey(last.preUri) \notin DOMAIN objects
           /\ uri[last.h] = last.str

\* the directory path, the base file name without extension and the
\* extension of a URI, as the placeholders are described
DirOf(u) == Before(u, LastIndex(u, "/"))
BaseOf(u) == After(u, LastIndex(u, "/"))
UriParts(u) ==
    [path |-> DirOf(u),
     file |-> Before(BaseOf(u), LastIndex(BaseOf(u), ".")),
     ext  |-> After(BaseOf(u), LastIndex(BaseOf(u), "."))]

\* C3: the new URI Rename computes is the pattern with {{path}}, {{file}}
\* and {{ext}} replaced by the directory path, the base file name and the
\* extension of the handle's current URI, the other text kept.
C3_RenameSubstitutesHandleParts ==
    (last.op = "Rename" /\ last.target # "")
        => last.target = Substitute(last.arg, UriParts(last.preUri))

\* C4: a Rename that fails returns an error and leaves the handle's URI as
\* it was; the backend is unchanged when the copy failed, and holds the
\* original and the copy when the delete failed after the copy.
C4_RenameFailureKeepsObjects ==
    (last.op = "Rename" /\ last.out \notin {"ok", "pending"})
        => /\ last.out = "error"
           /\ uri[last.h] = last.preUri
           /\ \/ objects = last.pre
              \/ /\ last.fault = "delete"
                 /\ UriKey(last.preUri) \in DOMAIN objects
                 /\ UriKey(last.target) \in DOMAIN objects
                 /\ objects[UriKey(last.preUri)] = last.pre[UriKey(last.preUri)]
                 /\ objects[UriKey(last.target)] = last.pre[UriKey(last.preUri)]

\* C5: Exists on the handle of an object that exists returns true (when
\* neither the client nor the attributes fetch fails); a successful Delete
\* leaves no object at the handle's URI, and Exists on a handle for a URI
\* whose object is gone returns false.
C5_ExistsAroundDelete ==
    /\ (last.op = "Exists" /\ last.fault = "none" /\ HandleKey(last.h) \in DOMAIN objects)
           => (last.out = "ok" /\ last.flag)
    /\ (last.op = "Delete" /\ last.out = "ok") => HandleKey(last.h) \notin DOMAIN objects
    /\ (last.op = "Exists" /\ HandleKey(last.h) \notin DOMAIN objects)
           => (last.out # "ok" \/ ~last.flag)

\* C5, reached: Exists returned false for an object of the initial backend
\* that has been deleted
C5_Witness ==
    /\ last.op = "Exists"
    /\ last.fault = "none"
    /\ last.out = "ok"
    /\ ~last.flag
    /\ HandleKey(last.h) \in DOMAIN InitialObjects
    /\ HandleKey(last.h) \notin DOMAIN objects

\* the names List is to return for a store on (bucket, prefix): under
\* prefix + "/", of non-zero size, the candidate URI matching the filter
Wanted(objs, bucket, prefix, filter) ==
    {k[2] : k \in {k \in DOMAIN objs :
                      /\ k[1] = bucket
                      /\ HasPrefix(k[2], prefix \o "/")
                      /\ Len(objs[k]) > 0
                      /\ (filter = "" \/ Passes(filter, bucket, k[2]))}}

ListedAsWanted(seq, bucket, want) ==
    /\ Len(seq) = Cardinality(want)
    /\ {seq[i] : i \in DOMAIN seq} = {CandidateUri(bucket, n) : n \in want}
    /\ \A i \in DOMAIN seq : \A j \in DOMAIN seq : i < j => StrLess(seq[i], seq[j])

\* C6: when the enumeration completes without error, List returns handles
\* for exactly the objects under prefix + "/" of non-zero size whose
\* candidate URI matches the filter (all of them for the empty filter),
\* each once and in the backend's order, and Apply calls its action for
\* exactly the same URIs.
C6_ListReturnsMatching ==
    (last.op \in {"List", "Apply"} /\ last.out = "ok")
        => ListedAsWanted(last.seq, parsed(storeUri).bucket,
                          Wanted(objects, parsed(storeUri).bucket,
                                 parsed(storeUri).object, last.arg))

\* C6, reached: List with a filter returned the one matching object while
\* the prefix also held a zero-size placeholder and a non-matching object
C6_Witness ==
    /\ last.op = "List"
    /\ last.out = "ok"
    /\ last.arg = "\\.txt$"
    /\ last.seq = <<"gcs://b/dir/file.txt">>
    /\ <<"b", "dir/">> \in DOMAIN objects
    /\ <<"b", "dir/a%41">> \in DOMAIN objects

\* C7: Apply with a non-empty filter that does not compile returns an
\* error, never calls the action, and creates no client.
C7_InvalidFilterFailsFirst ==
    (last.op = "Apply" /\ last.arg # "" /\ CompileErr(last.arg))
        => (last.out = "error" /\ last.seq = << >> /\ last.created = 0)

\* the scheme, bucket and key a URI of the form scheme://bucket/key is
\* written with
FormScheme(u) == Before(u, Index(u, "://"))
FormRest(u) == After(u, Index(u, "://") + 2)
FormBucket(u) == Before(FormRest(u), Index(FormRest(u), "/"))
FormKey(u) == After(FormRest(u), Index(FormRest(u), "/"))

Parsed(b, k) == [kind |-> "ok", bucket |-> b, object |-> k]

\* C8: for a URI scheme://b/k with b and k not empty, parseUri returns
\* bucket b and key k, and parsing the URI rebuilt from that result
\* returns the same pair.
C8_ParseRoundTrip ==
    last.op = "parseUri"
        => /\ last.out = "ok"
           /\ last.str = FormBucket(last.arg)
           /\ last.target = FormKey(last.arg)
           /\ parseUri(BuildUri(FormScheme(last.arg), last.str, last.target))
                  = Parsed(last.str, last.target)

\* the URIs of the model whose parsed path has zero length
BucketRoots == {u \in ModelUris : IF UrlParse(u).err THEN FALSE ELSE Len(UrlParse(u).Path) = 0}

\* the URI the last call worked on
CalledUri ==
    IF last.op \in {"Apply", "List"} THEN storeUri
    ELSE IF last.op = "Rename" THEN last.preUri
    ELSE IF last.h \in Handles THEN uri[last.h]
    ELSE ""

\* C9: on a URI whose parsed path is empty, every operation that needs an
\* object key ends with an error value (Exists: with false) instead of
\* crashing.
C9_BucketRootFailsCleanly ==
    (/\ last.op \in {"Read", "Write", "ReadAll", "WriteAll", "Exists", "Delete",
                     "Rename", "Copy", "Apply"}
     /\ CalledUri \in BucketRoots)
        => IF last.op = "Exists" THEN last.out = "ok" /\ ~last.flag
           ELSE last.out = "error"

\* C10: after successful incremental Writes on a handle, Close has closed
\* the write cursor, so that the bytes written are the object's content,
\* and has closed an open read cursor.
C10_CloseReleasesCursors ==
    last.op = "Close"
        => /\ (IF writer[last.h].nil THEN FALSE ELSE Len(writer[last.h].buf) > 0)
                  => /\ writer[last.h].closed
                     /\ <<writer[last.h].bucket, writer[last.h].object>> \in DOMAIN objects
                     /\ objects[<<writer[last.h].bucket, writer[last.h].object>>]
                            = writer[last.h].buf
           /\ (~reader[last.h].nil) => reader[last.h].closed

\* C11: Close on a file handle or on the store is idempotent: without a
\* client it returns success, and over any sequence of operations a client
\* is released once, a second Close not releasing it again.
C11_CloseReleasesOnce ==
    /\ \A h \in Handles : gsClient[h].closes <= 1
    /\ storeClient.closes <= 1
    /\ last.op \in {"Close", "StoreClose"} => last.out = "ok"

\* C12: on every exit path of Copy (success, stream failure, failure to
\* open the read cursor, client failure, URI parse failure) the sink has
\* been closed.
C12_CopyClosesSink ==
    last.op = "Copy" => last.sinkClosed

\* C13: Exists returns true exactly when the attributes fetch for the
\* handle's (bucket, key) succeeds; on every failure it returns false,
\* surfacing no error and not aborting.
C13_ExistsIsAttrsSuccess ==
    last.op = "Exists"
        => /\ last.out = "ok"
           /\ last.flag <=> (last.fault = "none" /\ HandleKey(last.h) \in DOMAIN objects)

\* a step keeps the read cursor of h: the same content, read on from where
\* it was by a Read and left alone by every other call
KeepsReader(h) ==
    (~reader[h].nil)
        => /\ ~reader'[h].nil
           /\ reader'[h].data = reader[h].data
           /\ reader'[h].pos =
                  IF last'.op = "Read" /\ last'.h = h
                  THEN reader[h].pos + Len(last'.data) ELSE reader[h].pos
           /\ (last'.op = "Read" /\ last'.h = h)
                  => last'.data = SubSeq(reader[h].data, reader[h].pos + 1, reader'[h].pos)

\* a step keeps the write cursor of h: the same object, its buffer extended
\* by a successful Write and left alone by every other call
KeepsWriter(h) ==
    (~writer[h].nil)
        => /\ ~writer'[h].nil
           /\ writer'[h].bucket = writer[h].bucket
           /\ writer'[h].object = writer[h].object
           /\ writer'[h].buf =
                  IF last'.op = "Write" /\ last'.h = h /\ last'.out = "ok"
                  THEN writer[h].buf \o last'.bytes ELSE writer[h].buf

\* C14: in a sequence of calls on one handle Read and Write open at most one
\* cursor each: once a cursor is open every later Read (Write) uses it, also
\* after the end of the stream, and none is opened in its place; ReadAll,
\* WriteAll and Copy leave the handle's cursors as they are.
C14_OneCursorPerHandle ==
    [][/\ \A h \in Handles : KeepsReader(h) /\ KeepsWriter(h)
       /\ last'.op \in {"ReadAll", "WriteAll", "Copy"}
              => (reader' = reader /\ writer' = writer)]_vars

\* C14, reached: a second Read went on from the first on the same cursor,
\* and a Read at the end of the stream left the cursor in place
C14_Witness ==
    /\ last.op = "Read"
    /\ last.out = "eof"
    /\ ~reader[last.h].nil
    /\ reader[last.h].pos = 2
    /\ reader[last.h].data = <<1, 2>>
    /\ ~writer[last.h].nil

\* both concurrent calls are of kind k, both found the cursor field nil, and
\* both have opened their cursor
BothOpened(k) ==
    \A p \in Procs : /\ race.kind[p] = k
                     /\ race.sawNil[p]
                     /\ race.pc[p] \in {"use", "done"}

\* C15: two Read calls (or two Write calls) that run concurrently on a
\* handle whose cursor is unopened can both find the field nil and each open
\* a cursor: then two cursors are open, the field holds one of them, and the
\* other was overwritten without being closed.
C15_RaceOpensTwoCursors ==
    /\ BothOpened("Read")
           => /\ race.opened["Read"] = 2
              /\ race.released["Read"] = 0
              /\ ~reader[RaceHandle].nil
    /\ BothOpened("Write")
           => /\ race.opened["Write"] = 2
              /\ race.released["Write"] = 0
              /\ ~writer[RaceHandle].nil

\* C15, reached: two concurrent Reads have both seen no cursor, each has
\* opened one, and both have returned
C15_Witness ==
    /\ BothOpened("Read")
    /\ \A p \in Procs : race.pc[p] = "done"
    /\ race.opened["Read"] = 2
    /\ race.released["Read"] = 0

\* C16: when the store's Exists or Delete returns, every client created
\* during the call (that of the transient handle and any its operation
\* creates) has been released.
C16_StoreCallReleasesClients ==
    last.op \in {"StoreExists", "StoreDelete"} => last.released = last.created

\* the names among the first k entries of a listing that Apply is to pass
\* on: of non-zero size, the candidate URI matching the filter
DeliveredBefore(objs, bucket, names, k, filter) ==
    {names[i] : i \in {i \in 1 .. k :
                          /\ Len(objs[<<bucket, names[i]>>]) > 0
                          /\ (filter = "" \/ Passes(filter, bucket, names[i]))}}

\* the last call listed the store's bucket and the iterator failed after
\* some entries
AbortedAfterSome ==
    /\ last.fault = "abort"
    /\ last.n >= 1
    /\ parsed(storeUri).kind = "ok"
    /\ parsed(storeUri).bucket \in Buckets
    /\ ~(last.arg # "" /\ CompileErr(last.arg))

\* C17: when the enumeration inside Apply is aborted after some entries,
\* Apply returns an error, the action was called for exactly the matching
\* entries of non-zero size enumerated before the abort, in order, and for
\* none after it, and the call's client has been released.
C17_AbortedApplyKeepsOrder ==
    (last.op = "Apply" /\ AbortedAfterSome)
        => /\ last.out = "error"
           /\ ListedAsWanted(last.seq, parsed(storeUri).bucket,
                             DeliveredBefore(objects, parsed(storeUri).bucket,
                                             Entries(objects, parsed(storeUri)),
                                             last.n, last.arg))
           /\ last.created = 1
           /\ last.released = 1

\* C17, reached: the iterator failed after two entries, a placeholder and
\* an object the action was called for, with a further object not reached
C17_Witness ==
    /\ last.op = "Apply"
    /\ last.fault = "abort"
    /\ last.out = "error"
    /\ last.arg = ""
    /\ last.n = 2
    /\ last.seq = <<"gcs://b/dir/a%41">>
    /\ <<"b", "dir/file.txt">> \in DOMAIN objects
    /\ last.released = 1

\* C18: when List returns an error (invalid filter, client failure, aborted
\* enumeration) the sequence it returns holds no handles.
C18_ListErrorReturnsNothing ==
    (last.op = "List" /\ last.out # "ok") => last.seq = << >>

\* the object at the key a URI parses to holds the content d
Holds(u, d) ==
    IF u = "" THEN FALSE
    ELSE UriKey(u) \in DOMAIN objects /\ objects[UriKey(u)] = d

\* C19: Rename loses no data: for every pattern, one naming the handle's own
\* object included, and every point of failure, the content the original
\* object had is afterwards stored under the original key or the new key.
C19_RenameKeepsContent ==
    (last.op = "Rename" /\ last.out # "pending" /\ UriKey(last.preUri) \in DOMAIN last.pre)
        => \/ Holds(last.preUri, last.pre[UriKey(last.preUri)])
           \/ Holds(last.target, last.pre[UriKey(last.preUri)])

\* the handle NewGcsFile(u) reads the object name of bucket: its URI has
\* the scheme, parses to (bucket, name), and ReadAll returns the content
Addresses(u, scheme, bucket, name) ==
    /\ FormScheme(u) = scheme
    /\ parseUri(u) = Parsed(bucket, name)
    /\ ReadAllCall(objects, parseUri(u), ensureClient(NoClient, "none"), "none")
           = [out |-> "ok", data |-> objects[<<bucket, name>>]]

ListedAddress(seq, scheme, bucket, names) ==
    /\ Len(seq) = Len(names)
    /\ \A i \in DOMAIN seq : Addresses(seq[i], scheme, bucket, names[i])

\* C20: every handle List or Apply produces addresses the object it was
\* enumerated from: its URI is scheme://bucket/objectName with the scheme of
\* the store's own URI, parseUri of it yields the enumerated (bucket,
\* objectName), and ReadAll on the handle returns that object's content.
C20_ListedHandleAddressesObject ==
    (last.op \in {"List", "Apply"} /\ last.out = "ok")
        => ListedAddress(last.seq, FormScheme(storeUri), parsed(storeUri).bucket,
                         SortNames(Wanted(objects, parsed(storeUri).bucket,
                                          parsed(storeUri).object, last.arg)))

====
